---- MODULE Spec2Model ----
(***************************************************************************)
(* Cloud session orchestration of vibe-server: the EndpointRegistry, the   *)
(* CloudSessionManager and the Socket.IO handlers that drive them.         *)
(*                                                                         *)
(* Endpoint ids are the sandbox ids the provisioner hands out (1, 2, ...), *)
(* session ids are the ids the durable store hands out (1, 2, ...), auth   *)
(* tokens are the random tokens generateAuthToken draws (call c draws      *)
(* token c); NoToken is the empty string of `data.authToken || ''`.        *)
(* The Socket.IO server is set (setupCloudEndpointHandlers has run).       *)
(***************************************************************************)
EXTENDS Integers, Sequences, FiniteSets, TLC

\* ---------------------------------------------------------------- bounds
MaxCalls == 2        \* createCloudSession calls (and so sessions)
MaxEndpoints == 2    \* sandboxes the provisioner can hand out
MaxClock == 2        \* latest endedAt of a session, counted from its first end
MaxStarts == 2       \* session:start emissions recorded per session
MaxPromptCalls == 3  \* improve-prompt requests on the one machine socket
MaxRunnerSessions == 2  \* session ids the runner is sent
MaxConnects == 2  \* 'connect' events of the runner's socket
MaxSpawnCalls == 2  \* E2BProvider.spawnEndpoint calls

\* ------------------------------------------------------------- constants
Null == 0            \* null / undefined
NoToken == 0         \* '' (a missing authToken is replaced by '')
SpawnMaxSessions == 1  \* maxConcurrentSessions passed to spawnEndpoint
DefaultMaxConcurrentSessions == 1  \* MAX_CONCURRENT_SESSIONS || '1'

Calls == 1..MaxCalls
\* One id more than the calls create: an id the sessions table never holds, or
\* the session of an earlier call.
SessionIds == 1..(MaxCalls + 1)
EndpointIds == 1..MaxEndpoints
Tokens == 1..(MaxCalls + 1)
AgentTypes == {"claude", "codex"}
AgentSets == {{"claude"}, {"claude", "codex"}}
\* The agent type the session requests carry (the default of the route and of the call).
RequestedAgents == {"claude"}
\* capabilities.maxSessions of the registrations: one session at a time (what
\* spawnNewEndpoint configures) or two.
SessionLimits == {1, 2}
Capabilities == [maxSessions : SessionLimits, supportedAgents : AgentSets]
\* What a cloud runner registers with: its MAX_CONCURRENT_SESSIONS, both agents.
RunnerCapabilities == [maxSessions : SessionLimits, supportedAgents : {{"claude", "codex"}}]

VARIABLES
    endpoints,           \* EndpointRegistry.endpoints: id -> CloudEndpoint
    endpointOrder,       \* insertion order of the endpoints Map
    sessionAssignments,  \* EndpointRegistry.sessionAssignments: sessionId -> endpointId
    endpointSessions,    \* EndpointRegistry.endpointSessions: endpointId -> set of sessionIds
    sessions,            \* CloudSessionManager.sessions: sessionId -> CloudSession
    pendingEndpoints,    \* CloudSessionManager.pendingEndpoints: endpointId -> authToken
    issued,              \* history: the <<endpointId, token>> pairs recorded, in order
    call,                \* the createCloudSession calls and where each one is
    nextSandbox,         \* provisioner: the next sandbox id
    nextSeq,             \* allocateUserSeq: the next sequence number of the user
    nextSessionId,       \* durable store: the id of the next session row
    updates,             \* the new-session updates emitted, by sequence number
    startsSent,          \* session:start emitted, per session
    rooms                \* endpoint rooms a socket has joined

\* The improve-prompt route (one machine socket).
VARIABLES
    promise,             \* per request: the Promise the route awaits
    timeout,             \* per request: the setTimeout timer is armed
    listeners            \* the socket's listeners, per event name

\* The cloud runner (one runner process).
VARIABLES
    maxConcurrentSessions,  \* CloudRunner.maxConcurrentSessions
    activeSessions,      \* CloudRunner.activeSessions: sessionId -> Session
    procs,               \* the agent subprocess spawned for each session id
    cleanupTimers,       \* session ids with the delete-after-exit timer armed
    killTimers,          \* session ids with the force-kill timer armed
    runnerSent,          \* the events the handler that ran last emitted
    runnerWrote,         \* the session.status writes of the handler that ran last
    connects,            \* how often 'connect' fired: the listeners per event
    terminalReports      \* history: session:ended / session:error emitted for a
                         \* session since it was started, per session id (at most 2 counted)

\* The message relay of the server.
VARIABLES
    relayed              \* the emits of the message handler that ran last

\* E2BProvider.spawnEndpoint and the environment of the server process.
VARIABLES
    envKey,              \* process.env.E2B_API_KEY
    envBefore,           \* history: process.env.E2B_API_KEY before the first call
    spawnCalls           \* the spawnEndpoint calls: where each is, and its originalApiKey

registryVars == <<endpoints, endpointOrder, sessionAssignments, endpointSessions>>
managerVars == <<sessions, pendingEndpoints, issued>>
envVars == <<call, nextSandbox, nextSeq, nextSessionId, updates, startsSent, rooms>>
cloudVars == <<registryVars, managerVars, envVars>>
promptVars == <<promise, timeout, listeners>>
runnerVars == <<maxConcurrentSessions, activeSessions, procs, cleanupTimers,
                killTimers, runnerSent, runnerWrote, connects, terminalReports>>
relayVars == <<relayed>>
e2bVars == <<envKey, envBefore, spawnCalls>>
\* What the cloud session manager and its session and endpoint handlers never
\* touch.
outsideVars == <<promptVars, runnerVars, relayVars, e2bVars>>
vars == <<endpoints, endpointOrder, sessionAssignments, endpointSessions,
          sessions, pendingEndpoints, issued, call, nextSandbox,
          nextSeq, nextSessionId, updates, startsSent, rooms,
          promise, timeout, listeners,
          maxConcurrentSessions, activeSessions, procs, cleanupTimers,
          killTimers, runnerSent, runnerWrote, connects, terminalReports,
          relayed, envKey, envBefore, spawnCalls>>

\* ---------------------------------------------------------------- helpers
Has(m, k) == k \in DOMAIN m

Put(m, k, v) == [x \in DOMAIN m \cup {k} |-> IF x = k THEN v ELSE m[x]]

Del(m, k) == [x \in DOMAIN m \ {k} |-> m[x]]

DelAll(m, ks) == [x \in DOMAIN m \ ks |-> m[x]]

Empty == [x \in {} |-> Null]

SeqRemove(s, k) == SelectSeq(s, LAMBDA x : x # k)

IdleCall == [pc |-> "idle", agentType |-> "claude", endpoint |-> Null,
             token |-> NoToken, seq |-> Null, spawned |-> FALSE, sessionId |-> Null]

\* ------------------------------------------------------- EndpointRegistry
\* The registry's three maps (and the insertion order of `endpoints`) as one value.
Registry == [endpoints |-> endpoints, order |-> endpointOrder,
             assignments |-> sessionAssignments, epSessions |-> endpointSessions]

\* registerEndpoint(registration): the endpoint is stored online and its
\* session set is replaced by a new empty Set. Map.set keeps the position of
\* a key the Map already holds.
registerEndpoint(R, e, caps) ==
    [R EXCEPT
        !.endpoints = Put(R.endpoints, e,
                          [status |-> "online",
                           maxSessions |-> caps.maxSessions,
                           supportedAgents |-> caps.supportedAgents]),
        !.order = IF Has(R.endpoints, e) THEN R.order ELSE Append(R.order, e),
        !.epSessions = Put(R.epSessions, e, {})]

\* unregisterEndpoint(endpointId): deletes the endpoint, the assignments of
\* the sessions in its session set, and the session set.
unregisterEndpoint(R, e) ==
    [R EXCEPT
        !.endpoints = Del(R.endpoints, e),
        !.order = SeqRemove(R.order, e),
        !.assignments = IF Has(R.epSessions, e)
                        THEN DelAll(R.assignments, R.epSessions[e])
                        ELSE R.assignments,
        !.epSessions = Del(R.epSessions, e)]

\* this.endpointSessions.get(id)?.size || 0
Load(R, e) == IF Has(R.epSessions, e) THEN Cardinality(R.epSessions[e]) ELSE 0

\* The filter of findAvailableEndpoint: online, supports the agent type, has capacity.
IsAvailable(R, e, agentType) ==
    /\ R.endpoints[e].status = "online"
    /\ agentType \in R.endpoints[e].supportedAgents
    /\ Load(R, e) < R.endpoints[e].maxSessions

\* Array.prototype.sort with the comparator aLoad - bLoad: a stable sort by
\* load, here as an insertion sort that puts x after the elements that are
\* not larger.
\* An insertion that puts x before the elements of equal load: a sort that
\* is not stable.
RECURSIVE InsertByLoad_Unstable(_, _, _)
InsertByLoad_Unstable(R, sorted, x) ==
    IF sorted = <<>> THEN <<x>>
    ELSE IF Load(R, Head(sorted)) < Load(R, x)
         THEN <<Head(sorted)>> \o InsertByLoad_Unstable(R, Tail(sorted), x)
         ELSE <<x>> \o sorted

RECURSIVE InsertByLoad(_, _, _)
InsertByLoad(R, sorted, x) ==
    IF sorted = <<>> THEN <<x>>
    ELSE IF Load(R, Head(sorted)) <= Load(R, x)
         THEN <<Head(sorted)>> \o InsertByLoad(R, Tail(sorted), x)
         ELSE <<x>> \o sorted

RECURSIVE SortByLoad(_, _)
SortByLoad(R, s) ==
    IF s = <<>> THEN <<>>
    ELSE InsertByLoad(R, SortByLoad(R, SubSeq(s, 1, Len(s) - 1)), s[Len(s)])

\* findAvailableEndpoint without its load-balancing sort: the first available
\* endpoint in registration order.
findAvailableEndpoint_NoSort(R, agentType) ==
    LET availableEndpoints == SelectSeq(R.order, LAMBDA e : IsAvailable(R, e, agentType))
    IN  IF Len(availableEndpoints) = 0 THEN Null ELSE availableEndpoints[1]

\* findAvailableEndpoint(agentType): the id of the endpoint returned, or Null.
findAvailableEndpoint(R, agentType) ==
    LET availableEndpoints == SelectSeq(R.order, LAMBDA e : IsAvailable(R, e, agentType))
    IN  IF Len(availableEndpoints) = 0 THEN Null
        ELSE SortByLoad(R, availableEndpoints)[1]

\* assignSession(sessionId, endpointId): the assignment is recorded; the
\* session joins the endpoint's session set only if that set exists.
assignSession(R, sessionId, e) ==
    [R EXCEPT
        !.assignments = Put(R.assignments, sessionId, e),
        !.epSessions = IF Has(R.epSessions, e)
                       THEN Put(R.epSessions, e, R.epSessions[e] \cup {sessionId})
                       ELSE R.epSessions]

\* unassignSession(sessionId)
unassignSession(R, sessionId) ==
    IF Has(R.assignments, sessionId)
    THEN LET e == R.assignments[sessionId]
         IN  [R EXCEPT
                !.epSessions = IF Has(R.epSessions, e)
                               THEN Put(R.epSessions, e, R.epSessions[e] \ {sessionId})
                               ELSE R.epSessions,
                !.assignments = Del(R.assignments, sessionId)]
    ELSE R

\* getSessionAssignment(sessionId): the endpoint id of the assignment, or Null.
getSessionAssignment(R, sessionId) ==
    IF Has(R.assignments, sessionId) THEN R.assignments[sessionId] ELSE Null

RECURSIVE SumMaxSessions(_, _)
SumMaxSessions(R, es) ==
    IF es = {} THEN 0
    ELSE LET e == CHOOSE x \in es : TRUE
         IN  R.endpoints[e].maxSessions + SumMaxSessions(R, es \ {e})

\* getStats() of the registry; utilization is kept as the pair it is the
\* quotient of (totalSessions / capacity * 100).
getStats(R) ==
    LET online == {e \in DOMAIN R.endpoints : R.endpoints[e].status = "online"}
        totalCapacity == SumMaxSessions(R, online)
        totalSessions == Cardinality(DOMAIN R.assignments)
    IN  [totalEndpoints |-> Cardinality(DOMAIN R.endpoints),
         onlineEndpoints |-> Cardinality(online),
         totalSessions |-> totalSessions,
         capacity |-> totalCapacity,
         utilizationNum |-> IF totalCapacity > 0 THEN totalSessions * 100 ELSE 0,
         utilizationDen |-> IF totalCapacity > 0 THEN totalCapacity ELSE 1]

\* The registry after an operation, written back to the variables.
SetRegistry(R) ==
    /\ endpoints' = R.endpoints
    /\ endpointOrder' = R.order
    /\ sessionAssignments' = R.assignments
    /\ endpointSessions' = R.epSessions

\* ---------------------------------------------------- CloudSessionManager
\* validateEndpointToken looking the token up in the whole table instead of
\* under the endpoint id.
validateEndpointToken_AnyEndpoint(P, e, token) ==
    \E d \in DOMAIN P : P[d] # NoToken /\ P[d] = token

\* validateEndpointToken(endpointId, token): expected && expected === token.
\* A recorded token is a non-empty string, so `expected` is truthy when present.
validateEndpointToken(P, e, token) ==
    IF Has(P, e) /\ P[e] # NoToken /\ P[e] = token THEN TRUE ELSE FALSE

\* findEndpointByToken(token): the first pending endpoint with that token, or Null.
findEndpointByToken(P, token) ==
    IF \E e \in DOMAIN P : P[e] = token
    THEN CHOOSE e \in DOMAIN P : P[e] = token /\ \A d \in DOMAIN P : P[d] = token => e <= d
    ELSE Null

\* The in-memory session record createCloudSession builds.
NewSession(e, agentType) ==
    [endpointId |-> e, status |-> "pending", agentType |-> agentType, endedAt |-> Null]

\* sessionStarted(sessionId) on the sessions table.
sessionStarted(S, sessionId) ==
    IF Has(S, sessionId) THEN [S EXCEPT ![sessionId].status = "running"] ELSE S

\* sessionEnded(sessionId) on the sessions table; t is what new Date() reads.
sessionEnded(S, sessionId, t) ==
    IF Has(S, sessionId)
    THEN [S EXCEPT ![sessionId].status = "ended", ![sessionId].endedAt = t]
    ELSE S

\* A sessionError that writes the status without looking the session up.
sessionError_NoLookup(S, sessionId, t) ==
    Put(S, sessionId,
        [endpointId |-> IF Has(S, sessionId) THEN S[sessionId].endpointId ELSE Null,
         status |-> "error",
         agentType |-> IF Has(S, sessionId) THEN S[sessionId].agentType ELSE "claude",
         endedAt |-> t])

\* sessionError(sessionId) on the sessions table; t is what new Date() reads.
sessionError(S, sessionId, t) ==
    IF Has(S, sessionId)
    THEN [S EXCEPT ![sessionId].status = "error", ![sessionId].endedAt = t]
    ELSE S

\* A startSessionOnEndpoint that leaves the status as it is.
startSessionOnEndpoint_KeepsStatus(S, sessionId) == S

\* startSessionOnEndpoint: the status after session:start was sent.
startSessionOnEndpoint(S, sessionId) ==
    IF Has(S, sessionId) THEN [S EXCEPT ![sessionId].status = "starting"] ELSE S

\* The sessions startPendingSessionsForEndpoint emits session:start for.
PendingSessionsFor(S, e) ==
    {sid \in DOMAIN S : S[sid].endpointId = e /\ S[sid].status = "pending"}

\* startPendingSessionsForEndpoint on the sessions table: it emits and leaves
\* every session as it is.
startPendingSessionsForEndpoint(S, e) == S

\* The guard of the endpoint:register handler: the event is rejected.
RegisterRejected(P, e, token) ==
    ~validateEndpointToken(P, e, token) /\ token # NoToken

\* What new Date() can read when endedAt is written, counted from the first
\* end of the session (1): the clock does not go back, and two reports can
\* fall in the same millisecond.
ClockReads(S, sessionId) ==
    IF Has(S, sessionId) /\ S[sessionId].endedAt # Null
    THEN {t \in {S[sessionId].endedAt, S[sessionId].endedAt + 1} : t <= MaxClock}
    ELSE {1}

\* ---------------------------------------------------- improve-prompt call
\* POST /v1/improve-prompt: the route picks the user's connected machine
\* socket, attaches two listeners and a timer, emits improve-prompt-request
\* and awaits a Promise. Payloads are objects: a response is named by its
\* content, an error by its message ("" when it has none).
PromptCalls == 1..MaxPromptCalls

ResponseEvent == "improve-prompt-response"

ErrorEvent == "improve-prompt-error"

PromptEvents == {ResponseEvent, ErrorEvent}

Responses == {"improved", "refused"}

ErrorMessages == {"", "agent crashed"}

TimeoutMessage == "Timeout waiting for prompt improvement"

FailedMessage == "Failed to improve prompt"

NoPromise == [state |-> "none", value |-> ""]

PendingPromise == [state |-> "pending", value |-> ""]

\* The state of the route's calls as one value.
Prompt == [promise |-> promise, timeout |-> timeout, listeners |-> listeners]

\* A Promise keeps its first outcome: resolve and reject do nothing once it is settled.
settle_Overwrite(p, outcome) == outcome

settle(p, outcome) == IF p.state = "pending" THEN outcome ELSE p

resolve(p, value) == settle(p, [state |-> "fulfilled", value |-> value])

reject(p, message) == settle(p, [state |-> "rejected", value |-> message])

\* socket.off(event, the handler of call c)
off(L, event, c) == [L EXCEPT ![event] = @ \ {c}]

\* responseHandler of call c: clearTimeout, off for itself, resolve.
responseHandler(P, c, response) ==
    [P EXCEPT !.timeout[c] = FALSE,
              !.listeners = off(@, ResponseEvent, c),
              !.promise[c] = resolve(@, response)]

\* errorHandler of call c: clearTimeout, off for both handlers, reject with
\* error.message || 'Failed to improve prompt'.
errorHandler(P, c, message) ==
    [P EXCEPT !.timeout[c] = FALSE,
              !.listeners = off(off(@, ErrorEvent, c), ResponseEvent, c),
              !.promise[c] = reject(@, IF message = "" THEN FailedMessage ELSE message)]

\* The timer callback of call c: reject; the timer has fired.
timeoutHandler(P, c) ==
    [P EXCEPT !.timeout[c] = FALSE,
              !.promise[c] = reject(@, TimeoutMessage)]

\* An event arrives on the socket: every handler attached for it is called,
\* in the order of attachment; a once() listener is detached before its
\* handler runs.
RECURSIVE dispatch(_, _, _, _)
dispatch(P, event, handlers, payload) ==
    IF handlers = {}
    THEN P
    ELSE LET c == CHOOSE x \in handlers : \A y \in handlers : x <= y
             detached == [P EXCEPT !.listeners = off(@, event, c)]
             ran == IF event = ResponseEvent
                    THEN responseHandler(detached, c, payload)
                    ELSE errorHandler(detached, c, payload)
         IN  dispatch(ran, event, handlers \ {c}, payload)

SetPrompt(P) ==
    /\ promise' = P.promise
    /\ timeout' = P.timeout
    /\ listeners' = P.listeners

InitPrompt ==
    /\ promise = [c \in PromptCalls |-> NoPromise]
    /\ timeout = [c \in PromptCalls |-> FALSE]
    /\ listeners = [event \in PromptEvents |-> {}]

\* ----------------------------------------------------------- cloud runner
RunnerSessionIds == 1..MaxRunnerSessions

\* The exit code of an agent subprocess: 0 or anything else (null after a signal).
ExitCodes == {0, 1}

\* spawnAgent: the subprocess runs ("live"); or spawn() returns a child that
\* could not be launched, whose 'error' event is emitted on the next tick,
\* before the continuation of `await this.spawnAgent(data)` ("errorFirst")
\* or, when the handler was entered from a microtask, after it
\* ("errorLast"); or spawn() throws ("throws").
Launches == {"live", "errorFirst", "errorLast", "throws"}

NoProc == [state |-> "none", killed |-> FALSE, sigkill |-> FALSE]

Emitted(event, sessionId) == [event |-> event, sessionId |-> sessionId]

\* session.status = to, on the Session object of sessionId whose status was
\* from ("none": the object is being built).
Wrote(sessionId, from, to) == [sessionId |-> sessionId, from |-> from, to |-> to]

\* n times the sequence q.
RECURSIVE Repeat(_, _)
Repeat(n, q) == IF n = 0 THEN <<>> ELSE q \o Repeat(n - 1, q)

\* The runner after its constructor and the first 'connect' of its socket.
InitRunner(max) ==
    /\ maxConcurrentSessions = max
    /\ activeSessions = Empty
    /\ procs = [sid \in RunnerSessionIds |-> NoProc]
    /\ cleanupTimers = {}
    /\ killTimers = {}
    /\ runnerSent = <<>>
    /\ runnerWrote = <<>>
    /\ connects = 1
    /\ terminalReports = [sid \in RunnerSessionIds |-> 0]

\* ------------------------------------------------------- message relay
\* What data.message of a message:* event can be; the server reads none of it.
Messages == {"hello", "bye"}

\* The socket of the client that sent the event.
Sender == "sender"

\* io.to(room).emit(event, {sessionId, message}) and socket.emit('error', ...):
\* kind and id name the room ("endpoint" : endpoint:<id>, "session" :
\* session:<id>) or the sending socket.
Emit(kind, id, event, sessionId, message) ==
    [kind |-> kind, id |-> id, event |-> event,
     sessionId |-> sessionId, message |-> message]

NoRouteError == "Session not found or not assigned to endpoint"

\* A 'message:to-claude' handler that emits to every endpoint room.
messageToClaude_Broadcast(R, sessionId, message) ==
    {Emit("endpoint", e, "message:send", sessionId, message) : e \in EndpointIds}

\* 'message:to-claude' from a client: the emits of the handler.
messageToClaude(R, sessionId, message) ==
    IF getSessionAssignment(R, sessionId) = Null
    THEN {Emit("socket", Sender, "error", Null, NoRouteError)}
    ELSE {Emit("endpoint", getSessionAssignment(R, sessionId),
               "message:send", sessionId, message)}

\* 'message:from-claude' from a runner: the emits of the handler.
messageFromClaude(sessionId, message) ==
    {Emit("session", sessionId, "message:from-agent", sessionId, message)}

InitRelay == relayed = {}

\* ------------------------------------------------------------ E2BProvider
SpawnCalls == 1..MaxSpawnCalls

\* process.env.E2B_API_KEY: undefined, the provider's apiKey, or another key.
Absent == "undefined"
ApiKey == "e2b_key"
EnvValues == {Absent, ApiKey, "e2b_other"}

IdleSpawn == [pc |-> "idle", originalApiKey |-> Absent]

\* if (originalApiKey !== undefined) process.env.E2B_API_KEY = originalApiKey;
\* else delete process.env.E2B_API_KEY
restoreApiKey(env, originalApiKey) ==
    IF originalApiKey # Absent THEN originalApiKey ELSE Absent

InitE2B(env) ==
    /\ envKey = env
    /\ envBefore = env
    /\ spawnCalls = [c \in SpawnCalls |-> IdleSpawn]

\* ------------------------------------------------------------------ Init
InitCloud ==
    /\ endpoints = Empty
    /\ endpointOrder = <<>>
    /\ sessionAssignments = Empty
    /\ endpointSessions = Empty
    /\ sessions = Empty
    /\ pendingEndpoints = Empty
    /\ issued = <<>>
    /\ call = [c \in Calls |-> IdleCall]
    /\ nextSandbox = 1
    /\ nextSeq = 1
    /\ nextSessionId = 1
    /\ updates = <<>>
    /\ startsSent = [sid \in SessionIds |-> 0]
    /\ rooms = {}

Init ==
    /\ InitCloud
    /\ InitPrompt
    /\ InitRelay
    /\ InitE2B(ApiKey)
    /\ InitRunner(DefaultMaxConcurrentSessions)

\* ---------------------------------------------------- createCloudSession
\* The synchronous start of a call: findAvailableEndpoint, then either
\* allocateUserSeq is awaited or a token is generated and spawnEndpoint awaited.
CreateBegin(c, agentType) ==
    /\ call[c].pc = "idle"
    /\ \A d \in Calls : d < c => call[d].pc # "idle"
    /\ LET endpoint == findAvailableEndpoint(Registry, agentType)
       IN  IF endpoint # Null
           THEN /\ call' = [call EXCEPT ![c] = [IdleCall EXCEPT !.pc = "seq",
                                !.agentType = agentType, !.endpoint = endpoint]]
           ELSE /\ call' = [call EXCEPT ![c] = [IdleCall EXCEPT !.pc = "spawn",
                                !.agentType = agentType, !.token = c,
                                !.spawned = TRUE]]
    /\ UNCHANGED <<registryVars, managerVars, nextSandbox, nextSeq, nextSessionId,
                   updates, startsSent, rooms>>
    /\ UNCHANGED outsideVars

\* spawnEndpoint resolves: the token is stored as pending, allocateUserSeq is awaited.
SpawnReturn(c) ==
    /\ call[c].pc = "spawn"
    /\ nextSandbox <= MaxEndpoints
    /\ pendingEndpoints' = Put(pendingEndpoints, nextSandbox, call[c].token)
    /\ issued' = Append(issued, <<nextSandbox, call[c].token>>)
    /\ nextSandbox' = nextSandbox + 1
    /\ call' = [call EXCEPT ![c].pc = "seq", ![c].endpoint = nextSandbox]
    /\ UNCHANGED <<registryVars, sessions, nextSeq, nextSessionId,
                   updates, startsSent, rooms>>
    /\ UNCHANGED outsideVars

\* spawnEndpoint throws after the token was stored as pending.
SpawnFail_StoresToken(c) ==
    /\ call[c].pc = "spawn"
    /\ pendingEndpoints' = Put(pendingEndpoints, nextSandbox, call[c].token)
    /\ call' = [call EXCEPT ![c].pc = "failed"]
    /\ UNCHANGED <<registryVars, sessions, issued, nextSandbox, nextSeq,
                   nextSessionId, updates, startsSent, rooms>>
    /\ UNCHANGED outsideVars

\* spawnEndpoint throws: createCloudSession rejects.
SpawnFail(c) ==
    /\ call[c].pc = "spawn"
    /\ call' = [call EXCEPT ![c].pc = "failed"]
    /\ UNCHANGED <<registryVars, managerVars, nextSandbox, nextSeq,
                   nextSessionId, updates, startsSent, rooms>>
    /\ UNCHANGED outsideVars

\* allocateUserSeq resolves: db.session.create is awaited.
SeqReturn(c) ==
    /\ call[c].pc = "seq"
    /\ call' = [call EXCEPT ![c].pc = "db", ![c].seq = nextSeq]
    /\ nextSeq' = nextSeq + 1
    /\ UNCHANGED <<registryVars, managerVars, nextSandbox, nextSessionId,
                   updates, startsSent, rooms>>
    /\ UNCHANGED outsideVars

\* allocateUserSeq throws: createCloudSession rejects.
SeqFail(c) ==
    /\ call[c].pc = "seq"
    /\ call' = [call EXCEPT ![c].pc = "failed"]
    /\ UNCHANGED <<registryVars, managerVars, nextSandbox, nextSeq,
                   nextSessionId, updates, startsSent, rooms>>
    /\ UNCHANGED outsideVars

\* db.session.create resolves: the update is emitted, the session is recorded
\* pending and assigned, and started at once if its endpoint is registered online.
DbReturn(c) ==
    /\ call[c].pc = "db"
    /\ LET sid == nextSessionId
           e == call[c].endpoint
           created == Put(sessions, sid, NewSession(e, call[c].agentType))
           online == Has(endpoints, e) /\ endpoints[e].status = "online"
       IN  /\ updates' = Append(updates, call[c].seq)
           /\ SetRegistry(assignSession(Registry, sid, e))
           /\ sessions' = IF online THEN startSessionOnEndpoint(created, sid) ELSE created
           /\ startsSent' = IF online
                            THEN [startsSent EXCEPT ![sid] = @ + 1]
                            ELSE startsSent
           /\ call' = [call EXCEPT ![c].pc = "done", ![c].sessionId = sid]
           /\ nextSessionId' = nextSessionId + 1
    /\ UNCHANGED <<pendingEndpoints, issued, nextSandbox, nextSeq, rooms>>
    /\ UNCHANGED outsideVars

\* db.session.create throws: createCloudSession rejects.
DbFail(c) ==
    /\ call[c].pc = "db"
    /\ call' = [call EXCEPT ![c].pc = "failed"]
    /\ UNCHANGED <<registryVars, managerVars, nextSandbox, nextSeq,
                   nextSessionId, updates, startsSent, rooms>>
    /\ UNCHANGED outsideVars

\* ------------------------------------------------------ Socket.IO handlers
\* An 'endpoint:register' handler that removes the pending token it accepted.
EndpointRegister_ConsumesToken(e, token, caps) ==
    /\ e < nextSandbox
    /\ \A sid \in PendingSessionsFor(sessions, e) : startsSent[sid] < MaxStarts
    /\ IF RegisterRejected(pendingEndpoints, e, token)
       THEN UNCHANGED <<registryVars, sessions, startsSent, rooms, pendingEndpoints>>
       ELSE /\ SetRegistry(registerEndpoint(Registry, e, caps))
            /\ rooms' = rooms \cup {e}
            /\ startsSent' = [sid \in SessionIds |->
                                IF sid \in PendingSessionsFor(sessions, e)
                                THEN startsSent[sid] + 1 ELSE startsSent[sid]]
            /\ sessions' = startPendingSessionsForEndpoint(sessions, e)
            /\ pendingEndpoints' = Del(pendingEndpoints, e)
    /\ UNCHANGED <<issued, call, nextSandbox, nextSeq, nextSessionId, updates>>
    /\ UNCHANGED outsideVars

\* 'endpoint:register' from a runner that knows the id of a spawned sandbox.
EndpointRegister(e, token, caps) ==
    /\ e < nextSandbox
    /\ \A sid \in PendingSessionsFor(sessions, e) : startsSent[sid] < MaxStarts
    /\ IF RegisterRejected(pendingEndpoints, e, token)
       THEN UNCHANGED <<registryVars, sessions, startsSent, rooms>>
       ELSE /\ SetRegistry(registerEndpoint(Registry, e, caps))
            /\ rooms' = rooms \cup {e}
            /\ startsSent' = [sid \in SessionIds |->
                                IF sid \in PendingSessionsFor(sessions, e)
                                THEN startsSent[sid] + 1 ELSE startsSent[sid]]
            /\ sessions' = startPendingSessionsForEndpoint(sessions, e)
    /\ UNCHANGED <<pendingEndpoints, issued, call, nextSandbox, nextSeq,
                   nextSessionId, updates>>
    /\ UNCHANGED outsideVars

\* 'endpoint:unregister'
EndpointUnregister(e) ==
    /\ e < nextSandbox
    /\ SetRegistry(unregisterEndpoint(Registry, e))
    /\ UNCHANGED <<managerVars, envVars>>
    /\ UNCHANGED outsideVars

\* 'disconnect' of the socket that registered endpoint e: the socket leaves
\* its rooms; the handler reads the endpoints and changes nothing.
EndpointDisconnect(e) ==
    /\ e \in rooms
    /\ rooms' = rooms \ {e}
    /\ UNCHANGED <<registryVars, managerVars, call, nextSandbox, nextSeq,
                   nextSessionId, updates, startsSent>>
    /\ UNCHANGED outsideVars

\* 'session:started'
SessionStarted(sid) ==
    /\ sessions' = sessionStarted(sessions, sid)
    /\ UNCHANGED <<registryVars, pendingEndpoints, issued, envVars>>
    /\ UNCHANGED outsideVars

\* A 'session:ended' handler whose cleanupIdleEndpoints unregisters an
\* endpoint that is left without a running session.
SessionEnded_TearsDownIdle(sid) ==
    \E t \in ClockReads(sessions, sid) :
        LET S == sessionEnded(sessions, sid, t)
            R == IF Has(sessions, sid) THEN unassignSession(Registry, sid) ELSE Registry
            idle == {e \in DOMAIN R.endpoints :
                        ~\E s \in DOMAIN S :
                            S[s].endpointId = e /\ S[s].status = "running"}
        IN  /\ sessions' = S
            /\ SetRegistry(IF Has(sessions, sid) /\ idle # {}
                           THEN unregisterEndpoint(R, CHOOSE e \in idle : TRUE)
                           ELSE R)
            /\ UNCHANGED <<pendingEndpoints, issued, call, nextSandbox, nextSeq,
                           nextSessionId, updates, startsSent, rooms>>
            /\ UNCHANGED outsideVars

\* 'session:ended': sessionEnded, which also unassigns (cleanupIdleEndpoints only logs).
SessionEnded(sid) ==
    \E t \in ClockReads(sessions, sid) :
        /\ sessions' = sessionEnded(sessions, sid, t)
        /\ SetRegistry(IF Has(sessions, sid) THEN unassignSession(Registry, sid) ELSE Registry)
        /\ UNCHANGED <<pendingEndpoints, issued, call, nextSandbox, nextSeq,
                       nextSessionId, updates, startsSent, rooms>>
        /\ UNCHANGED outsideVars

\* 'session:error': sessionError, which also unassigns.
SessionError(sid) ==
    \E t \in ClockReads(sessions, sid) :
        /\ sessions' = sessionError(sessions, sid, t)
        /\ SetRegistry(IF Has(sessions, sid) THEN unassignSession(Registry, sid) ELSE Registry)
        /\ UNCHANGED <<pendingEndpoints, issued, call, nextSandbox, nextSeq,
                       nextSessionId, updates, startsSent, rooms>>
        /\ UNCHANGED outsideVars

Next ==
    \/ \E c \in Calls, a \in RequestedAgents : CreateBegin(c, a)
    \/ \E c \in Calls : SpawnReturn(c)
    \/ \E c \in Calls : SpawnFail(c)
    \/ \E c \in Calls : SeqReturn(c)
    \/ \E c \in Calls : SeqFail(c)
    \/ \E c \in Calls : DbReturn(c)
    \/ \E c \in Calls : DbFail(c)
    \/ \E e \in EndpointIds, token \in Tokens \cup {NoToken}, caps \in RunnerCapabilities :
          EndpointRegister(e, token, caps)
    \/ \E e \in EndpointIds : EndpointUnregister(e)
    \/ \E sid \in SessionIds : SessionStarted(sid)
    \/ \E sid \in SessionIds : SessionEnded(sid)
    \/ \E sid \in SessionIds : SessionError(sid)

Spec == Init /\ [][Next]_vars

\* --------------------------------------- the registry driven through its API
\* The EndpointRegistry on its own: its public methods called in any order
\* (getEndpointRegistry hands the object out). A session is assigned when it
\* has no assignment, as createCloudSession assigns the session it has just
\* created under a new database id.
RegistryRegister(e, caps) ==
    /\ SetRegistry(registerEndpoint(Registry, e, caps))
    /\ UNCHANGED <<managerVars, envVars>>
    /\ UNCHANGED outsideVars

RegistryUnregister(e) ==
    /\ SetRegistry(unregisterEndpoint(Registry, e))
    /\ UNCHANGED <<managerVars, envVars>>
    /\ UNCHANGED outsideVars

RegistryAssign(sid, e) ==
    /\ ~Has(sessionAssignments, sid)
    /\ SetRegistry(assignSession(Registry, sid, e))
    /\ UNCHANGED <<managerVars, envVars>>
    /\ UNCHANGED outsideVars

RegistryUnassign(sid) ==
    /\ SetRegistry(unassignSession(Registry, sid))
    /\ UNCHANGED <<managerVars, envVars>>
    /\ UNCHANGED outsideVars

\* findAvailableEndpoint followed by assignSession on its result, as
\* createCloudSession uses the two.
RegistryPlace(sid, agentType) ==
    /\ ~Has(sessionAssignments, sid)
    /\ findAvailableEndpoint(Registry, agentType) # Null
    /\ SetRegistry(assignSession(Registry, sid, findAvailableEndpoint(Registry, agentType)))
    /\ UNCHANGED <<managerVars, envVars>>
    /\ UNCHANGED outsideVars

\* The sessions the registry is given: one per createCloudSession call.
CreatedSessionIds == 1..MaxCalls

NextRegistry ==
    \/ \E e \in EndpointIds, caps \in Capabilities : RegistryRegister(e, caps)
    \/ \E e \in EndpointIds : RegistryUnregister(e)
    \/ \E sid \in CreatedSessionIds, e \in EndpointIds : RegistryAssign(sid, e)
    \/ \E sid \in CreatedSessionIds : RegistryUnassign(sid)
    \/ \E sid \in CreatedSessionIds, a \in AgentTypes : RegistryPlace(sid, a)

SpecRegistry == Init /\ [][NextRegistry]_vars

\* The registry's methods with any arguments: assignSession also for a
\* session that has an assignment.
RegistryReassign(sid, e) ==
    /\ Has(sessionAssignments, sid)
    /\ SetRegistry(assignSession(Registry, sid, e))
    /\ UNCHANGED <<managerVars, envVars>>
    /\ UNCHANGED outsideVars

NextRegistryAny ==
    \/ \E e \in EndpointIds, caps \in Capabilities : RegistryRegister(e, caps)
    \/ \E e \in EndpointIds : RegistryUnregister(e)
    \/ \E sid \in CreatedSessionIds, e \in EndpointIds : RegistryAssign(sid, e)
    \/ \E sid \in CreatedSessionIds, e \in EndpointIds : RegistryReassign(sid, e)
    \/ \E sid \in CreatedSessionIds : RegistryUnassign(sid)

SpecRegistryAny == Init /\ [][NextRegistryAny]_vars

\* ------------------------------------------- provisioning and registration
\* createCloudSession calls and the first registration of each endpoint: the
\* steps that write and read the pending-auth table, with runners that
\* connect once.
NextProvision ==
    \/ \E c \in Calls, a \in RequestedAgents : CreateBegin(c, a)
    \/ \E c \in Calls : SpawnReturn(c)
    \/ \E c \in Calls : SpawnFail(c)
    \/ \E c \in Calls : SeqReturn(c)
    \/ \E c \in Calls : SeqFail(c)
    \/ \E c \in Calls : DbReturn(c)
    \/ \E c \in Calls : DbFail(c)
    \/ \E e \in EndpointIds, token \in Tokens \cup {NoToken}, caps \in RunnerCapabilities :
          ~Has(endpoints, e) /\ EndpointRegister(e, token, caps)

SpecProvision == Init /\ [][NextProvision]_vars

\* ------------------------------------------------- two calls, one endpoint
\* The state after an earlier call provisioned endpoint 1, the runner
\* registered it for one session at a time, and its session ran and ended:
\* one registered online endpoint with a free slot, and no call in flight.
RaceEndpoint == 1

PriorSession == MaxCalls + 1

PriorToken == MaxCalls + 1

InitRace ==
    /\ endpoints = Put(Empty, RaceEndpoint,
                       [status |-> "online", maxSessions |-> SpawnMaxSessions,
                        supportedAgents |-> {"claude", "codex"}])
    /\ endpointOrder = <<RaceEndpoint>>
    /\ sessionAssignments = Empty
    /\ endpointSessions = Put(Empty, RaceEndpoint, {})
    /\ sessions = Put(Empty, PriorSession,
                      [endpointId |-> RaceEndpoint, status |-> "ended",
                       agentType |-> "claude", endedAt |-> 1])
    /\ pendingEndpoints = Put(Empty, RaceEndpoint, PriorToken)
    /\ issued = <<<<RaceEndpoint, PriorToken>>>>
    /\ call = [c \in Calls |-> IdleCall]
    /\ nextSandbox = RaceEndpoint + 1
    /\ nextSeq = 2
    /\ nextSessionId = 1
    /\ updates = <<1>>
    /\ startsSent = [sid \in SessionIds |-> IF sid = PriorSession THEN 1 ELSE 0]
    /\ rooms = {RaceEndpoint}
    /\ InitPrompt
    /\ InitRelay
    /\ InitE2B(ApiKey)
    /\ InitRunner(DefaultMaxConcurrentSessions)

\* createCloudSession calls for 'claude', interleaved at their await points,
\* and the reports of the runner on the sessions it was sent.
NextRace ==
    \/ \E c \in Calls : CreateBegin(c, "claude")
    \/ \E c \in Calls : SpawnReturn(c)
    \/ \E c \in Calls : SpawnFail(c)
    \/ \E c \in Calls : SeqReturn(c)
    \/ \E c \in Calls : SeqFail(c)
    \/ \E c \in Calls : DbReturn(c)
    \/ \E c \in Calls : DbFail(c)
    \/ \E sid \in SessionIds : startsSent[sid] > 0 /\ SessionStarted(sid)
    \/ \E sid \in SessionIds : startsSent[sid] > 0 /\ SessionEnded(sid)
    \/ \E sid \in SessionIds : startsSent[sid] > 0 /\ SessionError(sid)

SpecRace == InitRace /\ [][NextRace]_vars

\* ------------------------------------------------ runners that reconnect
\* createCloudSession calls whose awaits do not throw, and runners that
\* register, any number of times, with the token and the session limit they
\* were spawned with.
SpawnedCapabilities ==
    [maxSessions : {SpawnMaxSessions}, supportedAgents : {{"claude", "codex"}}]

NextReconnect ==
    \/ \E c \in Calls, a \in RequestedAgents : CreateBegin(c, a)
    \/ \E c \in Calls : SpawnReturn(c)
    \/ \E c \in Calls : SeqReturn(c)
    \/ \E c \in Calls : DbReturn(c)
    \/ \E e \in EndpointIds, caps \in SpawnedCapabilities :
          Has(pendingEndpoints, e) /\ EndpointRegister(e, pendingEndpoints[e], caps)

SpecReconnect == Init /\ [][NextReconnect]_vars

\* The same, with runners whose socket disconnects.
NextDisconnect ==
    \/ NextReconnect
    \/ \E e \in EndpointIds : EndpointDisconnect(e)

SpecDisconnect == Init /\ [][NextDisconnect]_vars

\* ------------------------------------------- calls and any session report
\* createCloudSession calls, and session:started / session:ended /
\* session:error events that carry any session id: that of a session, an id
\* the store has not handed out yet, or one it never hands out. No endpoint
\* registers, no await of a call throws, and the end of a session is
\* reported once.
FirstEnd(sid) == Has(sessions, sid) => sessions[sid].endedAt = Null

NextReports ==
    \/ \E c \in Calls, a \in RequestedAgents : CreateBegin(c, a)
    \/ \E c \in Calls : SpawnReturn(c)
    \/ \E c \in Calls : SeqReturn(c)
    \/ \E c \in Calls : DbReturn(c)
    \/ \E sid \in SessionIds : SessionStarted(sid)
    \/ \E sid \in SessionIds : FirstEnd(sid) /\ SessionEnded(sid)
    \/ \E sid \in SessionIds : FirstEnd(sid) /\ SessionError(sid)

SpecReports == Init /\ [][NextReports]_vars

\* ------------------------------------- sessions that run and end on endpoints
\* createCloudSession calls, the runners of spawned sandboxes registering,
\* and their reports for sessions of the table: session:started for a
\* session that session:start was sent for, session:ended for one that runs.
NextIdle ==
    \/ \E c \in Calls, a \in RequestedAgents : CreateBegin(c, a)
    \/ \E c \in Calls : SpawnReturn(c)
    \/ \E c \in Calls : SeqReturn(c)
    \/ \E c \in Calls : DbReturn(c)
    \/ \E e \in EndpointIds, caps \in SpawnedCapabilities :
          Has(pendingEndpoints, e) /\ EndpointRegister(e, pendingEndpoints[e], caps)
    \/ \E sid \in DOMAIN sessions :
          sessions[sid].status = "starting" /\ SessionStarted(sid)
    \/ \E sid \in DOMAIN sessions :
          sessions[sid].status = "running" /\ SessionEnded(sid)

SpecIdle == Init /\ [][NextIdle]_vars

\* ------------------------------------------------ messages of the sessions
\* 'message:to-claude'
MessageToClaude(sid, message) ==
    /\ relayed' = messageToClaude(Registry, sid, message)
    /\ UNCHANGED <<cloudVars, promptVars, runnerVars, e2bVars>>

\* 'message:from-claude'
MessageFromClaude(sid, message) ==
    /\ relayed' = messageFromClaude(sid, message)
    /\ UNCHANGED <<cloudVars, promptVars, runnerVars, e2bVars>>

\* The registry operations, and messages in both directions for the session
\* ids the registry is given, assigned or not.
NextRelay ==
    \/ \E e \in EndpointIds, caps \in SpawnedCapabilities : RegistryRegister(e, caps)
    \/ \E sid \in CreatedSessionIds, e \in EndpointIds : RegistryAssign(sid, e)
    \/ \E sid \in CreatedSessionIds : RegistryUnassign(sid)
    \/ \E sid \in CreatedSessionIds, message \in Messages : MessageToClaude(sid, message)
    \/ \E sid \in CreatedSessionIds, message \in Messages : MessageFromClaude(sid, message)

SpecRelay == Init /\ [][NextRelay]_vars

\* ------------------------------------------- E2BProvider.spawnEndpoint alone
\* The frame of a provider step.
E2BOnly == UNCHANGED <<cloudVars, promptVars, runnerVars, relayVars>>

\* Where a call waits: `await import('e2b')`, then `await E2BSandbox.create`
\* and `await sandbox.commands.run`.
Awaiting == {"importing", "creating"}

\* spawnEndpoint up to its first await: the key is saved and set.
E2BSpawnBegin(c) ==
    /\ spawnCalls[c].pc = "idle"
    /\ spawnCalls' = [spawnCalls EXCEPT
                         ![c] = [pc |-> "importing", originalApiKey |-> envKey]]
    /\ envKey' = ApiKey
    /\ UNCHANGED envBefore
    /\ E2BOnly

\* import('e2b') resolves: the sandbox is being created.
E2BImported(c) ==
    /\ spawnCalls[c].pc = "importing"
    /\ spawnCalls' = [spawnCalls EXCEPT ![c].pc = "creating"]
    /\ UNCHANGED <<envKey, envBefore>>
    /\ E2BOnly

\* The awaits of spawnEndpoint resolve: the key is restored, the endpoint
\* returned.
E2BSpawnReturn(c) ==
    /\ spawnCalls[c].pc = "creating"
    /\ spawnCalls' = [spawnCalls EXCEPT ![c].pc = "returned"]
    /\ envKey' = restoreApiKey(envKey, spawnCalls[c].originalApiKey)
    /\ UNCHANGED envBefore
    /\ E2BOnly

\* An await of spawnEndpoint throws: the finally block restores the key.
E2BSpawnThrow(c) ==
    /\ spawnCalls[c].pc \in Awaiting
    /\ spawnCalls' = [spawnCalls EXCEPT ![c].pc = "thrown"]
    /\ envKey' = restoreApiKey(envKey, spawnCalls[c].originalApiKey)
    /\ UNCHANGED envBefore
    /\ E2BOnly

\* A provider constructed with ApiKey, in a process whose E2B_API_KEY is
\* unset, set to that key, or set to another.
InitE2BAlone ==
    /\ InitCloud
    /\ InitPrompt
    /\ InitRelay
    /\ InitRunner(DefaultMaxConcurrentSessions)
    /\ \E env \in EnvValues : InitE2B(env)

NextE2B ==
    \/ \E c \in SpawnCalls : E2BSpawnBegin(c)
    \/ \E c \in SpawnCalls : E2BImported(c)
    \/ \E c \in SpawnCalls : E2BSpawnReturn(c)
    \/ \E c \in SpawnCalls : E2BSpawnThrow(c)

SpecE2B == InitE2BAlone /\ [][NextE2B]_vars

\* ---------------------------------------- the improve-prompt calls alone
\* The route is entered: timer armed, both handlers attached with once(),
\* improve-prompt-request emitted, the Promise awaited.
PromptRequest(c) ==
    /\ promise[c].state = "none"
    /\ \A d \in PromptCalls : d < c => promise[d].state # "none"
    /\ promise' = [promise EXCEPT ![c] = PendingPromise]
    /\ timeout' = [timeout EXCEPT ![c] = TRUE]
    /\ listeners' = [event \in PromptEvents |-> listeners[event] \cup {c}]
    /\ UNCHANGED <<cloudVars, runnerVars, relayVars, e2bVars>>

\* The machine emits improve-prompt-response.
PromptResponse(response) ==
    /\ SetPrompt(dispatch(Prompt, ResponseEvent, listeners[ResponseEvent], response))
    /\ UNCHANGED <<cloudVars, runnerVars, relayVars, e2bVars>>

\* The machine emits improve-prompt-error.
PromptError(message) ==
    /\ SetPrompt(dispatch(Prompt, ErrorEvent, listeners[ErrorEvent], message))
    /\ UNCHANGED <<cloudVars, runnerVars, relayVars, e2bVars>>

\* The 35 s timer of call c fires.
PromptTimeout(c) ==
    /\ timeout[c]
    /\ SetPrompt(timeoutHandler(Prompt, c))
    /\ UNCHANGED <<cloudVars, runnerVars, relayVars, e2bVars>>

NextPrompt ==
    \/ \E c \in PromptCalls : PromptRequest(c)
    \/ \E response \in Responses : PromptResponse(response)
    \/ \E message \in ErrorMessages : PromptError(message)
    \/ \E c \in PromptCalls : PromptTimeout(c)

SpecPrompt == Init /\ [][NextPrompt]_vars

\* ------------------------------------------------- the cloud runner alone
\* The frame of a runner step.
RunnerOnly == UNCHANGED <<cloudVars, promptVars, relayVars, e2bVars>>

\* One more terminal report for sid.
Reported(sid) ==
    [terminalReports EXCEPT ![sid] = IF @ < 2 THEN @ + 1 ELSE @]

\* What the listeners of 'session:start' after the first emit for sid, run
\* while the first awaits spawnAgent with the session in the table.
OtherListeners(sid) ==
    Repeat(connects - 1,
           IF Cardinality(DOMAIN activeSessions) + 1 >= maxConcurrentSessions
           THEN <<Emitted("session:error", sid)>>
           ELSE <<>>)

\* 'session:start' -> startSession in each listener of the event, with what
\* spawnAgent does and, for a child that could not be launched, its 'error'
\* handler, which runs before any other event is handled. One subprocess
\* per session id at a time.
startSession(sid, launch) ==
    /\ \/ Cardinality(DOMAIN activeSessions) >= maxConcurrentSessions
       \/ Has(activeSessions, sid)
       \/ launch = "throws"
       \/ procs[sid].state # "live"
    /\ IF Cardinality(DOMAIN activeSessions) >= maxConcurrentSessions
       THEN /\ runnerSent' = Repeat(connects, <<Emitted("session:error", sid)>>)
            /\ runnerWrote' = <<>>
            /\ UNCHANGED <<activeSessions, procs, terminalReports>>
       ELSE IF Has(activeSessions, sid)
       THEN /\ runnerSent' = <<>>
            /\ runnerWrote' = <<>>
            /\ UNCHANGED <<activeSessions, procs, terminalReports>>
       ELSE IF launch = "throws"
       THEN /\ runnerSent' = OtherListeners(sid) \o <<Emitted("session:error", sid)>>
            /\ runnerWrote' = <<Wrote(sid, "none", "starting"),
                                Wrote(sid, "starting", "error")>>
            /\ terminalReports' = [terminalReports EXCEPT ![sid] = 1]
            /\ UNCHANGED <<activeSessions, procs>>
       ELSE IF launch = "live"
       THEN /\ activeSessions' = Put(activeSessions, sid,
                                     [status |-> "running", process |-> TRUE])
            /\ procs' = [procs EXCEPT ![sid] =
                            [state |-> "live", killed |-> FALSE, sigkill |-> FALSE]]
            /\ runnerSent' = OtherListeners(sid) \o <<Emitted("session:started", sid)>>
            /\ runnerWrote' = <<Wrote(sid, "none", "starting"),
                                Wrote(sid, "starting", "running")>>
            /\ terminalReports' = [terminalReports EXCEPT ![sid] = 0]
       ELSE IF launch = "errorFirst"
       THEN /\ activeSessions' = Put(activeSessions, sid,
                                     [status |-> "running", process |-> TRUE])
            /\ procs' = [procs EXCEPT ![sid] =
                            [state |-> "failed", killed |-> FALSE, sigkill |-> FALSE]]
            /\ runnerSent' = OtherListeners(sid)
                                \o <<Emitted("session:error", sid),
                                     Emitted("session:started", sid)>>
            /\ runnerWrote' = <<Wrote(sid, "none", "starting"),
                                Wrote(sid, "starting", "error"),
                                Wrote(sid, "error", "running")>>
            /\ terminalReports' = [terminalReports EXCEPT ![sid] = 1]
       ELSE /\ activeSessions' = Put(activeSessions, sid,
                                     [status |-> "error", process |-> TRUE])
            /\ procs' = [procs EXCEPT ![sid] =
                            [state |-> "failed", killed |-> FALSE, sigkill |-> FALSE]]
            /\ runnerSent' = OtherListeners(sid)
                                \o <<Emitted("session:started", sid),
                                     Emitted("session:error", sid)>>
            /\ runnerWrote' = <<Wrote(sid, "none", "starting"),
                                Wrote(sid, "starting", "running"),
                                Wrote(sid, "running", "error")>>
            /\ terminalReports' = [terminalReports EXCEPT ![sid] = 1]
    /\ UNCHANGED <<maxConcurrentSessions, cleanupTimers, killTimers, connects>>

RunnerStartSession(sid, launch) == startSession(sid, launch) /\ RunnerOnly

\* An 'exit' handler that deletes the session at once instead of arming the
\* timer.
RunnerProcessExit_DeletesAtOnce(sid, code) ==
    /\ procs[sid].state = "live"
    /\ procs' = [procs EXCEPT ![sid].state = "exited"]
    /\ activeSessions' = Del(activeSessions, sid)
    /\ runnerSent' = <<Emitted(IF code = 0 THEN "session:ended" ELSE "session:error", sid)>>
    /\ runnerWrote' = <<>>
    /\ terminalReports' = Reported(sid)
    /\ UNCHANGED <<maxConcurrentSessions, cleanupTimers, killTimers, connects>>
    /\ RunnerOnly

\* The subprocess of sid exits: 'exit' handler. It looks the session up by
\* its id, reports, and arms the timer that deletes the session.
onProcessExit(sid, code) ==
    /\ procs[sid].state = "live"
    /\ procs' = [procs EXCEPT ![sid].state = "exited"]
    /\ activeSessions' =
          IF Has(activeSessions, sid)
          THEN [activeSessions EXCEPT
                   ![sid] = [status |-> IF code = 0 THEN "ended" ELSE "error",
                             process |-> FALSE]]
          ELSE activeSessions
    /\ runnerSent' = <<Emitted(IF code = 0 THEN "session:ended" ELSE "session:error", sid)>>
    /\ runnerWrote' =
          IF Has(activeSessions, sid)
          THEN <<Wrote(sid, activeSessions[sid].status,
                       IF code = 0 THEN "ended" ELSE "error")>>
          ELSE <<>>
    /\ terminalReports' = Reported(sid)
    /\ cleanupTimers' = cleanupTimers \cup {sid}
    /\ UNCHANGED <<maxConcurrentSessions, killTimers, connects>>

RunnerProcessExit(sid, code) == onProcessExit(sid, code) /\ RunnerOnly

\* The timer set by the 'exit' handler fires: the session is deleted.
cleanupSession(sid) ==
    /\ sid \in cleanupTimers
    /\ cleanupTimers' = cleanupTimers \ {sid}
    /\ activeSessions' = Del(activeSessions, sid)
    /\ runnerSent' = <<>>
    /\ runnerWrote' = <<>>
    /\ UNCHANGED <<maxConcurrentSessions, procs, killTimers, connects,
                   terminalReports>>

RunnerCleanup(sid) == cleanupSession(sid) /\ RunnerOnly

\* 'session:stop' -> stopSession. kill('SIGTERM') sets `killed` when the
\* signal was delivered, that is when the subprocess runs. The listeners
\* after the first find no session and return.
stopSession(sid) ==
    /\ IF Has(activeSessions, sid)
       THEN /\ IF activeSessions[sid].process
               THEN /\ procs' = [procs EXCEPT
                                    ![sid].killed = (procs[sid].state = "live")]
                    /\ killTimers' = killTimers \cup {sid}
               ELSE UNCHANGED <<procs, killTimers>>
            /\ activeSessions' = Del(activeSessions, sid)
            /\ runnerSent' = <<Emitted("session:ended", sid)>>
            /\ runnerWrote' = <<Wrote(sid, activeSessions[sid].status, "ended")>>
            /\ terminalReports' = Reported(sid)
       ELSE /\ runnerSent' = <<>>
            /\ runnerWrote' = <<>>
            /\ UNCHANGED <<activeSessions, procs, killTimers, terminalReports>>
    /\ UNCHANGED <<maxConcurrentSessions, cleanupTimers, connects>>

RunnerStopSession(sid) == stopSession(sid) /\ RunnerOnly

\* The timer set by stopSession fires: SIGKILL unless `killed` is set. The
\* Session object the timer holds was deleted from the table by stopSession,
\* so no 'exit' handler has cleared its `process`.
forceKill(sid) ==
    /\ sid \in killTimers
    /\ killTimers' = killTimers \ {sid}
    /\ procs' = [procs EXCEPT ![sid].sigkill = @ \/ ~procs[sid].killed]
    /\ runnerSent' = <<>>
    /\ runnerWrote' = <<>>
    /\ UNCHANGED <<maxConcurrentSessions, activeSessions, cleanupTimers,
                   connects, terminalReports>>

RunnerForceKill(sid) == forceKill(sid) /\ RunnerOnly

\* The socket connects again after a disconnect: 'connect' handler, which
\* registers the endpoint and calls setupHandlers, adding one more listener
\* for each of session:start, message:send and session:stop.
RunnerConnect ==
    /\ connects < MaxConnects
    /\ connects' = connects + 1
    /\ runnerSent' = <<Emitted("endpoint:register", Null)>>
    /\ runnerWrote' = <<>>
    /\ UNCHANGED <<maxConcurrentSessions, activeSessions, procs, cleanupTimers,
                   killTimers, terminalReports>>
    /\ RunnerOnly

InitRunnerAlone ==
    /\ InitCloud
    /\ InitPrompt
    /\ InitRelay
    /\ InitE2B(ApiKey)
    /\ \E max \in SessionLimits : InitRunner(max)

NextRunner ==
    \/ \E sid \in RunnerSessionIds, launch \in Launches : RunnerStartSession(sid, launch)
    \/ \E sid \in RunnerSessionIds, code \in ExitCodes : RunnerProcessExit(sid, code)
    \/ \E sid \in RunnerSessionIds : RunnerCleanup(sid)
    \/ \E sid \in RunnerSessionIds : RunnerStopSession(sid)
    \/ \E sid \in RunnerSessionIds : RunnerForceKill(sid)

SpecRunner == InitRunnerAlone /\ [][NextRunner]_vars

\* ------------------------------------------- the server and one runner
\* The endpoint of the runner, and the sessions the server places on it.
AgreeEndpoint == 1
AgreeSessionIds == RunnerSessionIds \cap SessionIds

\* The runner's endpoint:register is handled: capabilities.maxSessions is its
\* maxConcurrentSessions.
AgreeRegister ==
    /\ ~Has(endpoints, AgreeEndpoint)
    /\ SetRegistry(registerEndpoint(Registry, AgreeEndpoint,
                                    [maxSessions |-> maxConcurrentSessions,
                                     supportedAgents |-> {"claude", "codex"}]))
    /\ rooms' = rooms \cup {AgreeEndpoint}
    /\ UNCHANGED <<managerVars, call, nextSandbox, nextSeq, nextSessionId,
                   updates, startsSent>>
    /\ UNCHANGED outsideVars

\* A createCloudSession call that no other event interleaves with finds the
\* runner's endpoint available, assigns the new session to it and emits
\* session:start, and the runner's listener handles that session:start.
AgreePlace(sid) ==
    /\ ~Has(sessions, sid)
    /\ procs[sid].state = "none"
    /\ findAvailableEndpoint(Registry, "claude") = AgreeEndpoint
    /\ SetRegistry(assignSession(Registry, sid, AgreeEndpoint))
    /\ sessions' = startSessionOnEndpoint(
                      Put(sessions, sid, NewSession(AgreeEndpoint, "claude")), sid)
    /\ startsSent' = [startsSent EXCEPT ![sid] = @ + 1]
    /\ startSession(sid, "live")
    /\ UNCHANGED <<pendingEndpoints, issued, call, nextSandbox, nextSeq,
                   nextSessionId, updates, rooms>>
    /\ UNCHANGED <<promptVars, relayVars, e2bVars>>

\* The subprocess of sid exits, and the server handles the runner's report:
\* session:ended (sessionEnded) for code 0, session:error (sessionError)
\* otherwise; both unassign the session.
AgreeExit(sid, code) ==
    /\ onProcessExit(sid, code)
    /\ \E t \in ClockReads(sessions, sid) :
          sessions' = IF code = 0 THEN sessionEnded(sessions, sid, t)
                                  ELSE sessionError(sessions, sid, t)
    /\ SetRegistry(IF Has(sessions, sid) THEN unassignSession(Registry, sid) ELSE Registry)
    /\ UNCHANGED <<pendingEndpoints, issued, envVars>>
    /\ UNCHANGED <<promptVars, relayVars, e2bVars>>

NextAgree ==
    \/ AgreeRegister
    \/ \E sid \in AgreeSessionIds : AgreePlace(sid)
    \/ \E sid \in AgreeSessionIds, code \in ExitCodes : AgreeExit(sid, code)
    \/ \E sid \in AgreeSessionIds :
          /\ Has(sessions, sid)
          /\ sessions[sid].status = "starting"
          /\ SessionStarted(sid)
    \/ \E sid \in AgreeSessionIds : RunnerCleanup(sid)

SpecAgree == InitRunnerAlone /\ [][NextAgree]_vars

\* The runner whose socket disconnects and connects again.
NextRunnerSocket ==
    \/ RunnerConnect
    \/ \E sid \in RunnerSessionIds, launch \in Launches : RunnerStartSession(sid, launch)
    \/ \E sid \in RunnerSessionIds, code \in ExitCodes : RunnerProcessExit(sid, code)
    \/ \E sid \in RunnerSessionIds : RunnerCleanup(sid)
    \/ \E sid \in RunnerSessionIds : RunnerStopSession(sid)

SpecRunnerSocket == InitRunnerAlone /\ [][NextRunnerSocket]_vars

\* The runner with subprocesses that launch: start, exit, the settle timer and
\* stop.
NextSettle ==
    \/ \E sid \in RunnerSessionIds : RunnerStartSession(sid, "live")
    \/ \E sid \in RunnerSessionIds, code \in ExitCodes : RunnerProcessExit(sid, code)
    \/ \E sid \in RunnerSessionIds : RunnerCleanup(sid)
    \/ \E sid \in RunnerSessionIds : RunnerStopSession(sid)

SpecSettle == InitRunnerAlone /\ [][NextSettle]_vars

\* ================================================================ claims
\* The sessions whose assignment record names endpoint e.
AssignedTo(e) == {sid \in DOMAIN sessionAssignments : sessionAssignments[sid] = e}

\* C1: for every endpoint, the number of sessions whose assignment record
\* names it is at most the endpoint's capabilities.maxSessions (for a
\* provisioned endpoint that has not registered yet, the maxSessions it was
\* spawned with).
C1_CapacityNeverExceeded ==
    /\ \A e \in DOMAIN endpoints :
          Cardinality(AssignedTo(e)) <= endpoints[e].maxSessions
    /\ \A e \in DOMAIN pendingEndpoints \ DOMAIN endpoints :
          Cardinality(AssignedTo(e)) <= SpawnMaxSessions

\* C2: with createCloudSession calls for 'claude' racing for the one
\* registered online endpoint, which takes one session at a time, at most one
\* session is assigned to that endpoint at any time; the other calls got a
\* newly provisioned endpoint or failed.
C2_AtMostOneOnRaceEndpoint ==
    /\ endpoints[RaceEndpoint].maxSessions = 1
    /\ Cardinality(AssignedTo(RaceEndpoint)) <= 1

\* The changes of status the session state machine allows.
LegalTransitions ==
    {<<"pending", "starting">>, <<"starting", "running">>,
     <<"running", "ended">>, <<"running", "error">>}

\* C3: every change of a session's status is pending->starting,
\* starting->running, running->ended or running->error; a report that would
\* cause any other change leaves the status as it was.
C3_OnlyLegalTransitions ==
    [][\A sid \in DOMAIN sessions :
          (sid \in DOMAIN sessions' /\ sessions'[sid].status # sessions[sid].status)
              => <<sessions[sid].status, sessions'[sid].status>> \in LegalTransitions]_vars

\* C4: sessionEnded or sessionError for a session that is already ended or
\* error leaves the session's status and endedAt and all registry
\* assignments unchanged.
C4_TerminalReportIsNoOp ==
    [][\A sid \in DOMAIN sessions :
          (/\ sessions[sid].status \in {"ended", "error"}
           /\ SessionEnded(sid) \/ SessionError(sid))
              => /\ sessions'[sid].status = sessions[sid].status
                 /\ sessions'[sid].endedAt = sessions[sid].endedAt
                 /\ sessionAssignments' = sessionAssignments
                 /\ endpointSessions' = endpointSessions]_vars

\* The endpoints that are registered online, support the agent kind and hold
\* fewer sessions in their session set than maxSessions.
EligibleFor(agentType) ==
    {e \in DOMAIN endpoints :
        /\ endpoints[e].status = "online"
        /\ agentType \in endpoints[e].supportedAgents
        /\ Cardinality(endpointSessions[e]) < endpoints[e].maxSessions}

IssuedTo(e) == {i \in 1..Len(issued) : issued[i][1] = e}

LastIssued(e) == issued[CHOOSE i \in IssuedTo(e) : \A j \in IssuedTo(e) : j <= i][2]

\* C6: validateEndpointToken(endpointId, token) is true exactly when a token
\* was recorded in pending auth for that endpointId and the one recorded last
\* equals token; so it is false for an unknown endpointId, for the empty
\* token, and for a token that is pending for another endpoint.
C6_ValidateEndpointToken ==
    \A e \in EndpointIds, token \in Tokens \cup {NoToken} :
        validateEndpointToken(pendingEndpoints, e, token)
            <=> (IssuedTo(e) # {} /\ LastIssued(e) = token)

\* Two endpoints are pending; each one's token validates for it and not for
\* the other, and the empty token validates for neither.
C6_Witness ==
    \E e \in DOMAIN pendingEndpoints, d \in DOMAIN pendingEndpoints :
        /\ e # d
        /\ validateEndpointToken(pendingEndpoints, e, pendingEndpoints[e])
        /\ ~validateEndpointToken(pendingEndpoints, e, pendingEndpoints[d])
        /\ ~validateEndpointToken(pendingEndpoints, e, NoToken)
        /\ e \in DOMAIN endpoints

\* The token is missing or empty, or differs from the pending token of e.
BadToken(e, token) ==
    \/ token = NoToken
    \/ ~Has(pendingEndpoints, e)
    \/ pendingEndpoints[e] # token

\* C7: an endpoint:register whose auth token is missing, empty or different
\* from the pending token of its endpoint id changes nothing in the registry,
\* joins no endpoint room and emits no session:start.
C7_BadTokenRejected ==
    [][\A e \in EndpointIds, token \in Tokens \cup {NoToken}, caps \in RunnerCapabilities :
          (BadToken(e, token) /\ EndpointRegister(e, token, caps))
              => UNCHANGED <<endpoints, endpointOrder, sessionAssignments,
                             endpointSessions, rooms, startsSent>>]_vars

\* C8: a createCloudSession that had to provision its endpoint, and returns
\* before that endpoint registers, leaves the token pending and the session
\* pending and assigned to the endpoint; when the endpoint then registers
\* with the matching token, session:start is emitted for each session pending
\* on it and the session's status becomes starting.
C8_ScenarioA ==
    [][/\ \A c \in Calls :
            (DbReturn(c) /\ call[c].spawned /\ ~Has(endpoints, call[c].endpoint))
               => LET sid == call'[c].sessionId
                  IN  /\ Has(pendingEndpoints', call[c].endpoint)
                      /\ sessions'[sid].status = "pending"
                      /\ sessionAssignments'[sid] = call[c].endpoint
       /\ \A e \in EndpointIds, caps \in RunnerCapabilities :
            (Has(pendingEndpoints, e) /\ EndpointRegister(e, pendingEndpoints[e], caps))
               => \A sid \in PendingSessionsFor(sessions, e) :
                     /\ startsSent'[sid] = startsSent[sid] + 1
                     /\ sessions'[sid].status = "starting"]_vars

\* C9: a session:ended or session:error for a known session S assigned to a
\* registered endpoint E removes the assignment and lowers by one both the
\* load findAvailableEndpoint counts for E and the sessions getStats counts;
\* for a session that has no assignment (a second report) no load changes.
C9_EndedFreesOneSlot ==
    [][\A sid \in DOMAIN sessions :
          (SessionEnded(sid) \/ SessionError(sid))
             => IF Has(sessionAssignments, sid)
                THEN LET e == sessionAssignments[sid]
                     IN  Has(endpoints, e)
                            => /\ ~Has(sessionAssignments', sid)
                               /\ Load(Registry', e) = Load(Registry, e) - 1
                               /\ getStats(Registry').totalSessions
                                     = getStats(Registry).totalSessions - 1
                ELSE /\ \A e \in DOMAIN endpoints : Load(Registry', e) = Load(Registry, e)
                     /\ getStats(Registry').totalSessions = getStats(Registry).totalSessions]_vars

\* C10: after endpoint:unregister for a registered endpoint E no assignment
\* record names E, and getStats().totalSessions counts only the sessions that
\* were assigned to other endpoints.
C10_UnregisterDropsAssignments ==
    [][\A e \in DOMAIN endpoints :
          EndpointUnregister(e)
             => /\ \A sid \in SessionIds : getSessionAssignment(Registry', sid) # e
                /\ getStats(Registry').totalSessions
                      = Cardinality(DOMAIN sessionAssignments \ AssignedTo(e))]_vars

\* The calls whose Promise is settled.
SettledCalls == {c \in PromptCalls : promise[c].state \in {"fulfilled", "rejected"}}

\* C11: once an improve-prompt call has settled, by the response event, the
\* error event or the timeout, neither of its handlers is attached to the
\* socket and its timer is not armed; so a response that arrives after the
\* timeout finds no listener.
C11_SettledCallIsDetached ==
    \A c \in SettledCalls :
        /\ c \notin listeners[ResponseEvent]
        /\ c \notin listeners[ErrorEvent]
        /\ ~timeout[c]

C13_SpawnFailureLeavesNoState ==
    [][\A c \in Calls :
          /\ (call[c].pc = "idle" /\ call'[c].pc = "spawn")
                => UNCHANGED <<sessions, registryVars, pendingEndpoints,
                               nextSeq, nextSessionId, updates, startsSent>>
          /\ SpawnFail(c)
                => /\ call'[c].pc = "failed"
                   /\ call'[c].seq = Null
                   /\ call'[c].sessionId = Null
                   /\ UNCHANGED <<sessions, registryVars, pendingEndpoints,
                                  nextSeq, nextSessionId, updates, startsSent>>]_vars

\* A call has failed in spawnEndpoint while an earlier call's session,
\* assignment, pending token and update are there.
C13_Witness ==
    \E c \in Calls :
        /\ call[c].pc = "failed"
        /\ call[c].spawned
        /\ call[c].endpoint = Null
        /\ sessions # Empty
        /\ sessionAssignments # Empty
        /\ pendingEndpoints # Empty
        /\ Len(updates) > 0

\* C14: assignSession on a registered endpoint whose assigned-session count
\* (in its session set and in the assignment records) equals its maxSessions
\* is rejected: no assignment is recorded.
C14_AssignAtCapacityRejected ==
    [][\A sid \in CreatedSessionIds, e \in DOMAIN endpoints :
          (/\ Load(Registry, e) = endpoints[e].maxSessions
           /\ Cardinality(AssignedTo(e)) = endpoints[e].maxSessions
           /\ RegistryAssign(sid, e))
              => UNCHANGED <<sessionAssignments, endpointSessions>>]_vars

\* C15: an endpoint:register from a registered endpoint, with the descriptor
\* it is registered with and its pending token, leaves the registry's
\* endpoints, assignment records and per-endpoint session sets as they were.
C15_ReRegistrationIdempotent ==
    [][\A e \in DOMAIN endpoints, caps \in RunnerCapabilities :
          (/\ Has(pendingEndpoints, e)
           /\ caps.maxSessions = endpoints[e].maxSessions
           /\ caps.supportedAgents = endpoints[e].supportedAgents
           /\ EndpointRegister(e, pendingEndpoints[e], caps))
              => /\ endpoints' = endpoints
                 /\ endpointOrder' = endpointOrder
                 /\ sessionAssignments' = sessionAssignments
                 /\ endpointSessions' = endpointSessions]_vars

\* C16: the new-session updates of the user are emitted in strictly
\* increasing order of their sequence numbers, and the sequence number of
\* every call that has returned or failed is carried by exactly one update.
C16_UpdatesInSeqOrder ==
    /\ \A i \in 1..Len(updates), j \in 1..Len(updates) :
          i < j => updates[i] < updates[j]
    /\ \A c \in Calls :
          (call[c].pc \in {"done", "failed"} /\ call[c].seq # Null)
             => Cardinality({i \in 1..Len(updates) : updates[i] = call[c].seq}) = 1

\* C17: on the runner, session:start for a session id in activeSessions
\* emits nothing and changes no session, also at the maximum of concurrent
\* sessions; session:start for a new id at the maximum emits session:error
\* and adds no session.
C17_DuplicateStartIsNoOp ==
    [][\A sid \in RunnerSessionIds, launch \in Launches :
          RunnerStartSession(sid, launch)
             => IF Has(activeSessions, sid)
                THEN /\ runnerSent' = <<>>
                     /\ activeSessions' = activeSessions
                ELSE Cardinality(DOMAIN activeSessions) >= maxConcurrentSessions
                        => /\ runnerSent' = <<Emitted("session:error", sid)>>
                           /\ activeSessions' = activeSessions]_vars

\* The endpoint is registered with status online.
IsOnline(e) == Has(endpoints, e) /\ endpoints[e].status = "online"

\* C18: when createCloudSession returns a session placed on a registered
\* online endpoint, one session:start has been emitted for it and its status
\* is starting; when the endpoint is not registered, none has been emitted
\* and its status is pending. No other session is sent a session:start.
C18_StartAtOnceOrDefer ==
    [][\A c \in Calls :
          DbReturn(c)
             => LET sid == call'[c].sessionId
                IN  /\ IF IsOnline(call[c].endpoint)
                       THEN /\ startsSent'[sid] = 1
                            /\ sessions'[sid].status = "starting"
                       ELSE /\ startsSent'[sid] = 0
                            /\ sessions'[sid].status = "pending"
                    /\ sessions'[sid].endpointId = call[c].endpoint
                    /\ \A other \in SessionIds \ {sid} :
                          startsSent'[other] = startsSent[other]]_vars

\* One call has returned a session that was started at once, on an endpoint
\* that had registered by then, and another one a pending session on the
\* endpoint it provisioned, which has not registered.
C18_Witness ==
    \E c \in Calls, d \in Calls :
        /\ call[c].pc = "done"
        /\ IsOnline(call[c].endpoint)
        /\ sessions[call[c].sessionId].status = "starting"
        /\ startsSent[call[c].sessionId] = 1
        /\ call[d].pc = "done"
        /\ call[d].spawned
        /\ ~Has(endpoints, call[d].endpoint)
        /\ sessions[call[d].sessionId].status = "pending"
        /\ startsSent[call[d].sessionId] = 0

\* C19: every assignment record names an endpoint that is registered with
\* status online.
C19_AssignmentsNameOnlineEndpoints ==
    \A sid \in DOMAIN sessionAssignments : IsOnline(sessionAssignments[sid])

\* C20: after endpoint:unregister for E, every session that was assigned to
\* E and was not ended or error has status error.
C20_UnregisterMarksSessionsError ==
    [][\A e \in EndpointIds :
          EndpointUnregister(e)
             => \A sid \in DOMAIN sessions :
                   (/\ sessions[sid].endpointId = e
                    /\ Has(sessionAssignments, sid)
                    /\ sessionAssignments[sid] = e
                    /\ sessions[sid].status \notin {"ended", "error"})
                      => sessions'[sid].status = "error"]_vars

\* C21: sessionStarted, sessionEnded and sessionError with a session id
\* that is not in the sessions table return normally and leave the sessions
\* table and the registry (endpoints, assignments, session sets) unchanged.
C21_UnknownIdIsIgnored ==
    [][\A sid \in SessionIds :
          (/\ ~Has(sessions, sid)
           /\ SessionStarted(sid) \/ SessionEnded(sid) \/ SessionError(sid))
              => UNCHANGED <<sessions, registryVars>>]_vars

\* The sessions table and the registry hold a session, and each of the
\* three reports for an id that is not in the table returns the table as it
\* is.
C21_Witness ==
    \E sid \in SessionIds, known \in DOMAIN sessions :
        /\ ~Has(sessions, sid)
        /\ Has(sessionAssignments, known)
        /\ sessions[known].status = "running"
        /\ sessionStarted(sessions, sid) = sessions
        /\ \A t \in ClockReads(sessions, sid) :
              /\ sessionEnded(sessions, sid, t) = sessions
              /\ sessionError(sessions, sid, t) = sessions

\* C22: validateEndpointToken and findEndpointByToken leave the pending-auth
\* table as it is: no step removes or changes a pending token, so a pair
\* (endpointId, token) that validates keeps validating and keeps being found,
\* and a registered endpoint that registers again with its token is accepted
\* again.
C22_TokenLookupsArePure ==
    [][/\ \A e \in EndpointIds, token \in Tokens :
             validateEndpointToken(pendingEndpoints, e, token)
                => /\ validateEndpointToken(pendingEndpoints', e, token)
                   /\ findEndpointByToken(pendingEndpoints', token)
                         = findEndpointByToken(pendingEndpoints, token)
       /\ \A e \in DOMAIN endpoints, caps \in SpawnedCapabilities :
             (/\ validateEndpointToken(pendingEndpoints, e, pendingEndpoints[e])
              /\ EndpointRegister(e, pendingEndpoints[e], caps))
                => /\ pendingEndpoints' = pendingEndpoints
                   /\ ~RegisterRejected(pendingEndpoints, e, pendingEndpoints[e])
                   /\ Has(endpoints', e)
                   /\ e \in rooms'
                   /\ \A sid \in PendingSessionsFor(sessions, e) :
                         startsSent'[sid] = startsSent[sid] + 1]_vars

\* An endpoint has registered twice with its token (the session pending on
\* it was sent two session:start), and the token still validates and is
\* still found.
C22_Witness ==
    \E sid \in DOMAIN sessions :
        LET e == sessions[sid].endpointId
        IN  /\ sessions[sid].status = "pending"
            /\ startsSent[sid] = 2
            /\ Has(endpoints, e)
            /\ validateEndpointToken(pendingEndpoints, e, pendingEndpoints[e])
            /\ findEndpointByToken(pendingEndpoints, pendingEndpoints[e]) = e

\* The endpoints whose session set holds sid.
CountedOn(sid) == {e \in DOMAIN endpointSessions : sid \in endpointSessions[e]}

\* C23: after any sequence of registerEndpoint, unregisterEndpoint,
\* assignSession and unassignSession, every session id is in the session set
\* of at most one endpoint, also when assignSession was called twice for the
\* session with different endpoints.
C23_CountedOnOneEndpoint ==
    \A sid \in CreatedSessionIds : Cardinality(CountedOn(sid)) <= 1

\* The place of endpoint e in the order of the endpoints Map.
Position(e) == CHOOSE i \in 1..Len(endpointOrder) : endpointOrder[i] = e

\* The eligible endpoints of least load.
LeastLoaded(agentType) ==
    {e \in EligibleFor(agentType) :
        \A d \in EligibleFor(agentType) : Load(Registry, e) <= Load(Registry, d)}

\* C24: among the eligible endpoints of least load findAvailableEndpoint
\* returns the one registered first, which makes its result a function of
\* the registry state; and a step that registers an endpoint the registry
\* holds (any step that adds and removes no endpoint) leaves every endpoint
\* at its place in the order.
C24_TiesGoToFirstRegistered ==
    /\ [](\A a \in AgentTypes :
             LeastLoaded(a) # {}
                => /\ findAvailableEndpoint(Registry, a) \in LeastLoaded(a)
                   /\ \A e \in LeastLoaded(a) :
                         Position(findAvailableEndpoint(Registry, a)) <= Position(e))
    /\ [][DOMAIN endpoints' = DOMAIN endpoints
             => endpointOrder' = endpointOrder]_vars

\* Both endpoints are eligible for 'claude' with one session each; the
\* endpoint with the larger id registered first and is the one returned.
C24_Witness ==
    /\ Len(endpointOrder) = 2
    /\ endpointOrder[1] > endpointOrder[2]
    /\ LeastLoaded("claude") = {endpointOrder[1], endpointOrder[2]}
    /\ Load(Registry, endpointOrder[1]) = 1
    /\ findAvailableEndpoint(Registry, "claude") = endpointOrder[1]

\* C25: the runner emits session:started for a session only after the agent
\* subprocess is confirmed launched: a start handler whose subprocess could
\* not be launched (the child's 'error' event fires) emits no
\* session:started for the session.
C25_StartedOnlyAfterLaunch ==
    \A sid \in RunnerSessionIds :
       procs[sid].state = "failed"
          => \A i \in DOMAIN runnerSent :
                runnerSent[i] # Emitted("session:started", sid)

\* The writes of session.status along starting -> running -> {ended, error}.
LegalWrites ==
    {<<"none", "starting">>, <<"starting", "running">>,
     <<"running", "ended">>, <<"running", "error">>}

\* C26: on the runner every write of a session's status follows
\* starting -> running -> {ended, error}: no write leaves ended or error and
\* none reaches ended or error from starting, in session:stop and in the
\* child's 'error' handler too.
C26_StatusFollowsLifecycle ==
    \A i \in DOMAIN runnerWrote :
       <<runnerWrote[i].from, runnerWrote[i].to>> \in LegalWrites

\* The subprocess of sid exits in this step.
Exits(sid) == procs[sid].state = "live" /\ procs'[sid].state = "exited"

\* The session of sid, in the table after its subprocess exited, leaves the
\* table in this step.
LeavesWhileSettling(sid) ==
    /\ sid \in cleanupTimers
    /\ Has(activeSessions, sid)
    /\ ~Has(activeSessions', sid)

GraceElapses(sid) == sid \in killTimers /\ sid \notin killTimers'

\* C28: after session:stop for an active session with a live subprocess
\* (SIGTERM sent), when the grace window elapses SIGKILL is sent if the
\* subprocess has not exited, and no SIGKILL is sent if it has.
C28_ForceKillAfterGrace ==
    [][\A sid \in RunnerSessionIds :
          GraceElapses(sid)
             => /\ procs[sid].state = "live" => procs'[sid].sigkill
                /\ procs[sid].state = "exited"
                      => procs'[sid].sigkill = procs[sid].sigkill]_vars

\* C29: session:error for a known session makes it error and removes its
\* assignment, and from then on the session stays error, has no assignment
\* and gets no further session:start, also when its endpoint registers
\* again. (The relay to the room session:<id> is an emit of the handler that
\* changes no state.)
C29_ErrorIsFinal ==
    [][\A sid \in SessionIds :
          /\ (Has(sessions, sid) /\ SessionError(sid))
                => /\ sessions'[sid].status = "error"
                   /\ ~Has(sessionAssignments', sid)
          /\ (Has(sessions, sid) /\ sessions[sid].status = "error")
                => /\ Has(sessions', sid)
                   /\ sessions'[sid].status = "error"
                   /\ ~Has(sessionAssignments', sid)
                   /\ startsSent'[sid] = startsSent[sid]]_vars

\* The endpoints of the registry that are online.
OnlineEndpoints == {e \in DOMAIN endpoints : endpoints[e].status = "online"}

\* C30: getStats reports as used capacity the number of sessions assigned to
\* registered endpoints and as capacity the sum of maxSessions over the
\* online endpoints; utilization is used / capacity * 100, 0 when the
\* capacity is 0, and at most 100.
C30_StatsWithinCapacity ==
    LET stats == getStats(Registry)
    IN  /\ stats.totalSessions =
              Cardinality({sid \in DOMAIN sessionAssignments :
                              sessionAssignments[sid] \in DOMAIN endpoints})
        /\ stats.capacity = SumMaxSessions(Registry, OnlineEndpoints)
        /\ stats.capacity = 0 => stats.utilizationNum = 0
        /\ stats.capacity > 0
              => /\ stats.utilizationNum = stats.totalSessions * 100
                 /\ stats.utilizationDen = stats.capacity
        /\ stats.utilizationNum <= 100 * stats.utilizationDen

\* The sessions of the table on endpoint e whose status is running.
RunningOn(e) ==
    {sid \in DOMAIN sessions :
        sessions[sid].endpointId = e /\ sessions[sid].status = "running"}

\* C31: handling session:ended removes no endpoint from the registry and
\* changes nothing of the provisioner: a step that ends a session leaves the
\* registered endpoints, their order, the pending-auth table and the
\* sandboxes spawned as they are, whether or not an endpoint is left with no
\* running session.
C31_SessionEndedKeepsEndpoints ==
    [][\A sid \in SessionIds :
          (/\ Has(sessions, sid)
           /\ sessions'[sid] # sessions[sid]
           /\ sessions'[sid].status = "ended")
              => UNCHANGED <<endpoints, endpointOrder, pendingEndpoints,
                             nextSandbox, rooms>>]_vars

\* A registered endpoint whose only session ended: it has no running
\* session and is in the registry.
C31_Witness ==
    \E e \in DOMAIN endpoints, sid \in DOMAIN sessions :
        /\ sessions[sid].endpointId = e
        /\ sessions[sid].status = "ended"
        /\ endpoints[e].status = "online"
        /\ ~Has(sessionAssignments, sid)
        /\ RunningOn(e) = {}

\* C32: a client message for session S is forwarded as message:send, with
\* the message it carried, to the room of the endpoint S is assigned to and
\* to no other room, and is answered with an error to the sender and not
\* forwarded when S has no assignment; an agent message for S is forwarded
\* as message:from-agent, with the message it carried, to the room of S.
C32_RelayUnchangedAlongRoute ==
    [][\A sid \in CreatedSessionIds, message \in Messages :
          /\ MessageToClaude(sid, message)
                => IF Has(sessionAssignments, sid)
                   THEN relayed' = {Emit("endpoint", sessionAssignments[sid],
                                         "message:send", sid, message)}
                   ELSE /\ \A m \in relayed' : m.event # "message:send"
                        /\ \E m \in relayed' :
                              m.kind = "socket" /\ m.event = "error"
          /\ MessageFromClaude(sid, message)
                => relayed' = {Emit("session", sid, "message:from-agent",
                                    sid, message)}]_vars

\* Two endpoints are registered, and the message handler that ran last
\* forwarded a client message to the room of the endpoint its session is
\* assigned to.
C32_Witness ==
    \E sid \in DOMAIN sessionAssignments, m \in relayed :
        /\ Cardinality(DOMAIN endpoints) >= 2
        /\ m.event = "message:send"
        /\ m.kind = "endpoint"
        /\ m.id = sessionAssignments[sid]
        /\ m.sessionId = sid

\* C33: the registry's two indexes agree: a session id is in the session set
\* of an endpoint if and only if the session's assignment record names that
\* endpoint, after any sequence of registerEndpoint, unregisterEndpoint,
\* assignSession and unassignSession.
C33_IndexesAgree ==
    \A sid \in SessionIds, e \in EndpointIds :
        (Has(endpointSessions, e) /\ sid \in endpointSessions[e])
           <=> (Has(sessionAssignments, sid) /\ sessionAssignments[sid] = e)

\* C34: the server emits session:start at most once for each session, over
\* any sequence of createCloudSession calls and endpoint registrations,
\* repeated registrations of one endpoint included.
C34_StartEmittedAtMostOnce ==
    \A sid \in SessionIds : startsSent[sid] <= 1

\* C35: for each session it has started the runner emits at most one
\* terminal report (session:ended or session:error), over any interleaving
\* of session:stop, the exit of the subprocess and its 'error' event.
C35_OneTerminalReport ==
    \A sid \in RunnerSessionIds : terminalReports[sid] <= 1

\* C37: each session:start is handled once, however often the socket has
\* connected: a session:start for a new session on a runner with
\* maxConcurrentSessions = 1 and no session starts it and emits no
\* session:error.
C37_HandledOnceAfterReconnect ==
    [][\A sid \in RunnerSessionIds :
          (/\ maxConcurrentSessions = 1
           /\ activeSessions = Empty
           /\ Has(activeSessions', sid)
           /\ procs'[sid].state = "live")
              => runnerSent' = <<Emitted("session:started", sid)>>]_vars

\* C36: server and runner agree on capacity: when the server places a new
\* session on the endpoint because its registry shows a free slot and sends
\* session:start, the runner accepts it (the session is in its table,
\* session:started is emitted and no session:error), also when the slot was
\* freed by a report less than the settle delay earlier.
C36_RunnerAcceptsPlacedSession ==
    [][\A sid \in AgreeSessionIds :
          (~Has(sessionAssignments, sid) /\ Has(sessionAssignments', sid))
             => /\ Has(activeSessions', sid)
                /\ runnerSent' = <<Emitted("session:started", sid)>>]_vars

\* C38: a createCloudSession that fails after placement (allocateUserSeq or
\* db.session.create throws) leaves no partial state: no session and no
\* assignment of the call, and no pending-auth entry for an endpoint that
\* the call provisioned.
C38_FailureAfterPlacementLeavesNoState ==
    \A c \in Calls :
        (call[c].pc = "failed" /\ call[c].endpoint # Null)
           => /\ call[c].sessionId = Null
              /\ \A sid \in DOMAIN sessions :
                    \E d \in Calls : d # c /\ call[d].sessionId = sid
              /\ \A sid \in DOMAIN sessionAssignments :
                    \E d \in Calls : d # c /\ call[d].sessionId = sid
              /\ call[c].spawned => ~Has(pendingEndpoints, call[c].endpoint)

\* C39: after the socket of a registered endpoint disconnected without
\* endpoint:unregister, findAvailableEndpoint does not return the endpoint
\* and createCloudSession places no session on it: an endpoint that is
\* returned, and one a call found in the registry, has a connected socket.
C39_DisconnectedEndpointNotUsed ==
    /\ [](\A a \in AgentTypes :
             findAvailableEndpoint(Registry, a) # Null
                => findAvailableEndpoint(Registry, a) \in rooms)
    /\ [][\A c \in Calls :
             (call[c].pc = "idle" /\ call'[c].pc = "seq")
                => call'[c].endpoint \in rooms]_vars

\* C40: spawnEndpoint restores process.env.E2B_API_KEY: once every call has
\* returned or thrown, the variable has the value, or the absence, it had
\* before the first call, in every interleaving of the calls.
C40_ApiKeyRestored ==
    (/\ \A c \in SpawnCalls : spawnCalls[c].pc \notin Awaiting
     /\ \E c \in SpawnCalls : spawnCalls[c].pc # "idle")
        => envKey = envBefore

====
